---- MODULE Spec2Model ----
(***************************************************************************)
(* gocover-cobertura: conversion of a Go coverage profile into a Cobertura *)
(* coverage tree.  Strings are sequences of one-character strings, so that *)
(* prefix tests, the block-line pattern and the path operations are        *)
(* computed on the text the program sees.                                  *)
(***************************************************************************)
EXTENDS Integers, Sequences, FiniteSets, TLC

\* ------------------------------------------------------------------------
\* Bounds of the model
\* ------------------------------------------------------------------------
\* number of lines of the profile after its first line
MaxLines == 3

\* ------------------------------------------------------------------------
\* Text helpers (package strings, strconv)
\* ------------------------------------------------------------------------
Digits == <<"0", "1", "2", "3", "4", "5", "6", "7", "8", "9">>

IsDigit(c) == \E i \in 1..Len(Digits) : Digits[i] = c

DigitVal(c) == (CHOOSE i \in 1..Len(Digits) : Digits[i] = c) - 1

AllDigits(s, from, to) == from <= to /\ \A i \in from..to : IsDigit(s[i])

\* strings.HasPrefix
HasPrefix(s, p) == Len(s) >= Len(p) /\ SubSeq(s, 1, Len(p)) = p

\* strconv.Atoi on a string of digits (toInt panics on anything else; the
\* pattern only hands it digits)
RECURSIVE toInt(_)
toInt(s) == IF Len(s) = 0 THEN 0
            ELSE 10 * toInt(SubSeq(s, 1, Len(s) - 1)) + DigitVal(s[Len(s)])

\* decimal text of a number: how the profile writer prints the fields
RECURSIVE Dec(_)
Dec(n) == IF n < 10 THEN <<Digits[n + 1]>>
          ELSE Dec(n \div 10) \o <<Digits[(n % 10) + 1]>>

\* Go's | on non-negative ints
RECURSIVE BitOr(_, _)
BitOr(a, b) == IF a = 0 THEN b
               ELSE IF b = 0 THEN a
               ELSE 2 * BitOr(a \div 2, b \div 2)
                    + (IF (a % 2 = 1) \/ (b % 2 = 1) THEN 1 ELSE 0)

\* the literal "mode: "
prefix == <<"m", "o", "d", "e", ":", " ">>

ModeSet == <<"s", "e", "t">>

ModeCount == <<"c", "o", "u", "n", "t">>

\* ------------------------------------------------------------------------
\* lineRe: ^(.+):([0-9]+).([0-9]+),([0-9]+).([0-9]+) ([0-9]+) ([0-9]+)$
\* A split is the positions of ':', the first '.', ',', the second '.',
\* and the two spaces; '.' in the pattern is any character.
\* ------------------------------------------------------------------------
Positions(s, c) == {i \in 1..Len(s) : s[i] = c}

DigitsBefore(s, to) == {i \in 1..(to - 2) : AllDigits(s, i + 1, to - 1)}

lineReSplits(s) ==
    UNION { UNION { UNION { UNION { UNION {
        { <<a, b, c, d, e, f>> :
             a \in {i \in DigitsBefore(s, b) : i >= 2 /\ s[i] = ":"} }
        : b \in DigitsBefore(s, c) }
        : c \in {i \in DigitsBefore(s, d) : s[i] = ","} }
        : d \in DigitsBefore(s, e) }
        : e \in {i \in DigitsBefore(s, f) : s[i] = " "} }
        : f \in {i \in DigitsBefore(s, Len(s) + 1) : s[i] = " "} }

\* leftmost-greedy: the earlier group is as long as a match allows
SplitBefore(a, b) ==
    \E k \in 1..6 : (\A j \in 1..(k - 1) : a[j] = b[j]) /\ a[k] < b[k]

\* FindStringSubmatch: <<>> is nil, otherwise match[1..7]
FindStringSubmatch(s) ==
    LET all == lineReSplits(s) IN
    IF all = {} THEN <<>>
    ELSE LET sp == CHOOSE x \in all : \A y \in all : y = x \/ SplitBefore(y, x) IN
         << SubSeq(s, 1, sp[1] - 1),
            SubSeq(s, sp[1] + 1, sp[2] - 1),
            SubSeq(s, sp[2] + 1, sp[3] - 1),
            SubSeq(s, sp[3] + 1, sp[4] - 1),
            SubSeq(s, sp[4] + 1, sp[5] - 1),
            SubSeq(s, sp[5] + 1, sp[6] - 1),
            SubSeq(s, sp[6] + 1, Len(s)) >>

\* ------------------------------------------------------------------------
\* State
\* ------------------------------------------------------------------------
VARIABLES
    input,      \* the lines bufio.Scanner has yielded so far from `in`
    ignore,     \* the *Ignore handed to ParseProfiles / Convert
    mode,       \* ParseProfiles: mode
    files,      \* ParseProfiles: files, map from file name to *Profile
    profiles,   \* the slice ParseProfiles returns (<<>> is nil or empty)
    err,        \* the error returned by the running function
    pc,         \* position of the run
    world,      \* what packages.Load answers: [loadErr, noModule]
    disk,       \* the source files: absolute path -> parsed file
    byFiles,    \* the -by-files flag
    hitsRule,   \* how Lines.AddOrUpdateLine combines the hits of a line it holds
    pkgMap,     \* Convert: pkgMap, package ID -> *packages.Package
    cov,        \* the Coverage being built
    next,       \* parseProfiles: number of profiles folded so far
    lastCall,   \* the arguments of the last ParseProfile call
    visited,    \* the declarations visited by the last ParseProfile call,
                \* each with the blocks that method() selected for it
    outOK,      \* how many writes the writer `out` accepts before it fails
    out         \* what has been written to `out`

vars == <<input, ignore, mode, files, profiles, err, pc,
          world, disk, byFiles, hitsRule, pkgMap, cov, next, lastCall, visited, outOK, out>>

parseVars == <<input, ignore, mode, files, profiles>>

foldVars == <<world, disk, byFiles, hitsRule, pkgMap, cov, next, lastCall, visited, outOK, out>>

NoErr == [msg |-> "nil", args |-> <<>>]

Errorf(m, a) == [msg |-> m, args |-> a]

\* ------------------------------------------------------------------------
\* Ignore.Match: path patterns, and the generated-file marker when the
\* contents are at hand (data = "nil" at profile-parsing time)
\* ------------------------------------------------------------------------
IgnoreMatch(ign, fileName, data) ==
    \/ fileName \in ign.Files
    \/ ign.GeneratedFiles /\ data = "generated"

\* ------------------------------------------------------------------------
\* ParseProfiles
\* ------------------------------------------------------------------------
\* mutant of badModeLine: the test for an empty mode is forgotten
badModeLineNoEmptyTest(line) == ~HasPrefix(line, prefix)

\* parseLine, first line: !strings.HasPrefix(line, prefix) || line == prefix
badModeLine(line) == ~HasPrefix(line, prefix) \/ line = prefix

ProfileBlock(match) ==
    [StartLine |-> toInt(match[2]), StartCol |-> toInt(match[3]),
     EndLine   |-> toInt(match[4]), EndCol   |-> toInt(match[5]),
     NumStmt   |-> toInt(match[6]), Count    |-> toInt(match[7])]

\* files after parseLine has taken a matching line of a file that is not
\* ignored: the profile is created on first sight, the block appended
addBlock(fs, m, filename, block) ==
    LET profile == IF filename \in DOMAIN fs THEN fs[filename]
                   ELSE [FileName |-> filename, Mode |-> m, Blocks |-> <<>>]
    IN [f \in (DOMAIN fs) \cup {filename} |->
           IF f = filename
           THEN [profile EXCEPT !.Blocks = Append(profile.Blocks, block)]
           ELSE fs[f]]

\* parseLine: [mode, files, err] after the line
parseLine(m, line, fs, ign) ==
    IF m = <<>>
    THEN IF badModeLine(line)
         THEN [mode |-> m, files |-> fs, err |-> Errorf("bad mode line: %s", <<line>>)]
         ELSE [mode |-> SubSeq(line, Len(prefix) + 1, Len(line)), files |-> fs, err |-> NoErr]
    ELSE LET match == FindStringSubmatch(line) IN
         IF match = <<>> THEN [mode |-> m, files |-> fs, err |-> NoErr]
         ELSE IF IgnoreMatch(ign, match[1], "nil")
         THEN [mode |-> m, files |-> fs, err |-> NoErr]
         ELSE [mode |-> m, files |-> addBlock(fs, m, match[1], ProfileBlock(match)),
               err |-> NoErr]

\* blocksByStart.Less
blocksByStartLess(bi, bj) ==
    \/ bi.StartLine < bj.StartLine
    \/ bi.StartLine = bj.StartLine /\ bi.StartCol < bj.StartCol

Swap(b, i, j) == [b EXCEPT ![i] = b[j], ![j] = b[i]]

\* sort.Sort(blocksByStart(...)): for the short slices of the model (fewer
\* than 12 elements) sort.Sort is this insertion sort
RECURSIVE sortInner(_, _)
sortInner(b, j) ==
    IF j > 1 /\ blocksByStartLess(b[j], b[j - 1])
    THEN sortInner(Swap(b, j, j - 1), j - 1)
    ELSE b

RECURSIVE sortBlocksFrom(_, _)
sortBlocksFrom(b, i) ==
    IF i > Len(b) THEN b ELSE sortBlocksFrom(sortInner(b, i), i + 1)

sortBlocks(b) == sortBlocksFrom(b, 2)

sameLocation(x, y) ==
    /\ x.StartLine = y.StartLine
    /\ x.StartCol = y.StartCol
    /\ x.EndLine = y.EndLine
    /\ x.EndCol = y.EndCol

\* Count |= c under "set", Count += c otherwise
mergeCount(m, old, c) == IF m = ModeSet THEN BitOr(old, c) ELSE old + c

\* the loop of mergeSameLocationSamples over one profile's sorted blocks,
\* in place: b[1..blockNo] is the merged prefix, blockIndex the block read
RECURSIVE mergeLoop(_, _, _, _)
mergeLoop(b, blockNo, blockIndex, m) ==
    IF blockIndex > Len(b)
    THEN [err |-> NoErr, Blocks |-> SubSeq(b, 1, blockNo)]
    ELSE LET currentBlock == b[blockIndex]
             last == b[blockNo]
         IN IF sameLocation(currentBlock, last)
            THEN IF currentBlock.NumStmt # last.NumStmt
                 THEN [err |-> Errorf("inconsistent NumStmt: changed from %d to %d",
                                      <<last.NumStmt, currentBlock.NumStmt>>),
                       Blocks |-> b]
                 ELSE mergeLoop([b EXCEPT ![blockNo].Count =
                                     mergeCount(m, last.Count, currentBlock.Count)],
                                blockNo, blockIndex + 1, m)
            ELSE mergeLoop([b EXCEPT ![blockNo + 1] = currentBlock],
                           blockNo + 1, blockIndex + 1, m)

\* one profile of mergeSameLocationSamples: sort, then merge
mergeProfile(profile, m) == mergeLoop(sortBlocks(profile.Blocks), 1, 2, m)

\* byFileName.Less: p[i].FileName < p[j].FileName, byte-wise on strings
Alphabet == <<" ", "*", "-", ".", "/", "0", "1", "2", "3", "4", "5", "6", "7", "8", "9",
              ":", "T", "U", "[", "\\", "]", "a", "b", "c", "d", "e", "g", "i", "k", "l", "m",
              "n", "o", "p", "r", "s", "t", "u", "v", "x">>

Ord(c) == CHOOSE i \in 1..Len(Alphabet) : Alphabet[i] = c

StringLess(s, t) ==
    \/ \E k \in 1..Len(s) :
          /\ k <= Len(t)
          /\ SubSeq(s, 1, k - 1) = SubSeq(t, 1, k - 1)
          /\ Ord(s[k]) < Ord(t[k])
    \/ Len(s) < Len(t) /\ SubSeq(t, 1, Len(s)) = s

\* mutant of byFileNameLess: the comparison is turned around
byFileNameGreater(p, q) == StringLess(q.FileName, p.FileName)

byFileNameLess(p, q) == StringLess(p.FileName, q.FileName)

\* generateSortedProfilesSlice: the profiles of the map, sorted with
\* byFileName (the keys of a map are distinct, so the order is total)
RECURSIVE sortedProfiles(_)
sortedProfiles(ps) ==
    IF ps = {} THEN <<>>
    ELSE LET first == CHOOSE p \in ps : \A q \in ps : q = p \/ byFileNameLess(p, q)
         IN <<first>> \o sortedProfiles(ps \ {first})

generateSortedProfilesSlice(fs) == sortedProfiles({fs[f] : f \in DOMAIN fs})

\* one iteration of the scanning loop of ParseProfiles: the scanner yields
\* one more line, one of firstLines at the start of the input and one of
\* dataLines after it
ScanLine(firstLines, dataLines) ==
    /\ pc = "scan"
    /\ Len(input) < MaxLines + 1
    /\ \E line \in (IF input = <<>> THEN firstLines ELSE dataLines) :
          LET r == parseLine(mode, line, files, ignore) IN
          /\ input' = Append(input, line)
          /\ mode' = r.mode
          /\ files' = r.files
          /\ IF r.err # NoErr
             THEN err' = r.err /\ pc' = "parsed"
             ELSE UNCHANGED <<err, pc>>
    /\ UNCHANGED <<ignore, profiles, foldVars>>

\* the end of ParseProfiles, when the scanner stops: at the end of the
\* input, or on an error of the reader (scanner.Err); then
\* mergeSameLocationSamples over the map (Go ranges over it in no fixed
\* order, so any failing profile may be the one that is reported), then
\* generateSortedProfilesSlice
FinishParse ==
    /\ pc = "scan"
    /\ \E scanErr \in BOOLEAN :
       LET merged == [f \in DOMAIN files |-> mergeProfile(files[f], mode)]
           failing == {f \in DOMAIN files : merged[f].err # NoErr}
       IN IF scanErr
          THEN /\ err' = Errorf("scan profiles: %w", <<>>)
               /\ UNCHANGED <<files, profiles>>
          ELSE IF failing # {}
          THEN /\ \E f \in failing : err' = merged[f].err
               /\ UNCHANGED <<files, profiles>>
          ELSE /\ files' = [f \in DOMAIN files |->
                              [files[f] EXCEPT !.Blocks = merged[f].Blocks]]
               /\ profiles' = generateSortedProfilesSlice(files')
               /\ UNCHANGED err
    /\ pc' = "parsed"
    /\ UNCHANGED <<input, ignore, mode, foldVars>>

\* ------------------------------------------------------------------------
\* Paths (package path/filepath, package strings)
\* ------------------------------------------------------------------------
LastIndex(s, c) == IF Positions(s, c) = {} THEN 0
                   ELSE CHOOSE i \in Positions(s, c) : \A j \in Positions(s, c) : j <= i

\* filepath.Split: <<dir, file>>, dir ends with the last separator
Split(path) == << SubSeq(path, 1, LastIndex(path, "/")),
                  SubSeq(path, LastIndex(path, "/") + 1, Len(path)) >>

\* filepath.Base of a path that does not end with a separator
Base(path) == IF path = <<>> THEN <<".">> ELSE Split(path)[2]

RECURSIVE TrimRight(_, _)
TrimRight(s, c) == IF Len(s) > 0 /\ s[Len(s)] = c
                   THEN TrimRight(SubSeq(s, 1, Len(s) - 1), c)
                   ELSE s

RECURSIVE TrimLeft(_, _)
TrimLeft(s, c) == IF Len(s) > 0 /\ s[1] = c
                  THEN TrimLeft(SubSeq(s, 2, Len(s)), c)
                  ELSE s

\* strings.TrimSpace, for the blank the model's texts hold
TrimSpace(s) == TrimLeft(TrimRight(s, " "), " ")

\* strings.ReplaceAll of one character by another
ReplaceAll(s, old, new) == [i \in 1..Len(s) |-> IF s[i] = old THEN new ELSE s[i]]

\* filepath.Join of two clean elements
Join(a, b) == IF a = <<>> THEN b
              ELSE IF b = <<>> THEN a
              ELSE a \o <<"/">> \o b

\* getPackageName
getPackageName(filename) == TrimRight(TrimRight(Split(filename)[1], "\\"), "/")

\* ------------------------------------------------------------------------
\* The Cobertura tree (Line, Method, Class, Package, Coverage)
\* ------------------------------------------------------------------------
\* a rate is the fraction <<hits, lines>>, <<0, 1>> when there is no line
Rate(lines) ==
    IF Len(lines) = 0 THEN <<0, 1>>
    ELSE << Cardinality({i \in 1..Len(lines) : lines[i].Hits > 0}), Len(lines) >>

\* Lines.HitRate
LinesHitRate(lines) == Rate(lines)

\* the two ways of combining the hits of a line that recurs: the logical
\* OR and the sum
HitsRules == {"or", "sum"}

\* Lines.AddOrUpdateLine(lineNumber, hits): a line number is unique within
\* the lines; the hits of a line that recurs are combined.  The call gives
\* the line number and the count of the block and nothing of the profile,
\* so the combination is one of HitsRules whatever the mode
combineHits(old, hits) ==
    IF hitsRule = "or" THEN (IF old > 0 \/ hits > 0 THEN 1 ELSE 0) ELSE old + hits

AddOrUpdateLine(lines, lineNumber, hits) ==
    IF \E i \in 1..Len(lines) : lines[i].Number = lineNumber
    THEN [i \in 1..Len(lines) |->
             IF lines[i].Number = lineNumber
             THEN [lines[i] EXCEPT !.Hits = combineHits(lines[i].Hits, hits)]
             ELSE lines[i]]
    ELSE Append(lines, [Number |-> lineNumber, Hits |-> hits])

RECURSIVE ConcatAll(_)
ConcatAll(ss) == IF Len(ss) = 0 THEN <<>> ELSE ss[1] \o ConcatAll(Tail(ss))

ClassLinesOf(classes) == ConcatAll([i \in 1..Len(classes) |-> classes[i].Lines])

\* Package.HitRate
PackageHitRate(pkg) == Rate(ClassLinesOf(pkg.Classes))

AllLines(c) == ConcatAll([i \in 1..Len(c.Packages) |-> ClassLinesOf(c.Packages[i].Classes)])

\* Coverage.NumLines, Coverage.NumLinesWithHits, Coverage.HitRate
NumLines(c) == Len(AllLines(c))

NumLinesWithHits(c) == Rate(AllLines(c))[1]

CoverageHitRate(c) == Rate(AllLines(c))

\* Coverage{}: the zero value (the Timestamp, time.Now(), is left out)
ZeroCoverage == [Sources |-> <<>>, Packages |-> <<>>,
                 LinesValid |-> 0, LinesCovered |-> 0, LineRate |-> <<0, 1>>]

\* ------------------------------------------------------------------------
\* fileVisitor
\* ------------------------------------------------------------------------
\* mutant of pastEnd: a block that starts at the very end is not past it
pastEndStrict(block, endLine, endCol) ==
    \/ block.StartLine > endLine
    \/ block.StartLine = endLine /\ block.StartCol > endCol

\* position order on (line, column)
pastEnd(block, endLine, endCol) ==
    \/ block.StartLine > endLine
    \/ block.StartLine = endLine /\ block.StartCol >= endCol

beforeStart(block, startLine, startCol) ==
    \/ block.EndLine < startLine
    \/ block.EndLine = startLine /\ block.EndCol <= startCol

\* the loop of method(): the blocks, from index i on, whose lines are
\* recorded for the declaration n; the scan stops at the first block
\* at or past the end of n
RECURSIVE methodBlocks(_, _, _)
methodBlocks(blocks, i, n) ==
    IF i > Len(blocks) THEN <<>>
    ELSE IF pastEnd(blocks[i], n.End[1], n.End[2]) THEN <<>>
    ELSE IF beforeStart(blocks[i], n.Pos[1], n.Pos[2])
         THEN methodBlocks(blocks, i + 1, n)
         ELSE <<blocks[i]>> \o methodBlocks(blocks, i + 1, n)

\* mutant of blockLines: the loop stops before the last line of the block
RECURSIVE blockLinesShort(_, _, _)
blockLinesShort(lines, block, i) ==
    IF i >= block.EndLine THEN lines
    ELSE blockLinesShort(AddOrUpdateLine(lines, i, block.Count), block, i + 1)

\* for i := block.StartLine; i <= block.EndLine; i++ { AddOrUpdateLine }
RECURSIVE blockLines(_, _, _)
blockLines(lines, block, i) ==
    IF i > block.EndLine THEN lines
    ELSE blockLines(AddOrUpdateLine(lines, i, block.Count), block, i + 1)

RECURSIVE linesOf(_, _, _)
linesOf(lines, sel, k) ==
    IF k > Len(sel) THEN lines
    ELSE linesOf(blockLines(lines, sel[k], sel[k].StartLine), sel, k + 1)

\* mutant of method: the lines recorded stop at the last line of n
RECURSIVE clip(_, _)
clip(sel, n) ==
    IF Len(sel) = 0 THEN <<>>
    ELSE << [sel[1] EXCEPT !.EndLine = IF @ > n.End[1] THEN n.End[1] ELSE @] >>
         \o clip(Tail(sel), n)

methodClipped(profile, n) ==
    [Name |-> n.Name,
     Lines |-> linesOf(<<>>, clip(methodBlocks(profile.Blocks, 1, n), n), 1),
     LineRate |-> <<0, 1>>]

\* fileVisitor.method
method(profile, n) ==
    [Name |-> n.Name,
     Lines |-> linesOf(<<>>, methodBlocks(profile.Blocks, 1, n), 1),
     LineRate |-> <<0, 1>>]

\* mutant of recvName: the pointer marker is kept
recvNameWithStar(n) == IF n.Recv = <<>> THEN <<"-">> ELSE TrimSpace(n.Recv)

\* fileVisitor.recvName: the text of the receiver type, without leading
\* '*' and surrounding blanks; n.Recv = <<>> is a declaration with no receiver
recvName(n) == IF n.Recv = <<>> THEN <<"-">>
               ELSE TrimSpace(TrimLeft(n.Recv, "*"))

className(byF, fileName, n) ==
    IF byF THEN ReplaceAll(ReplaceAll(fileName, "/", "."), "\\", ".")
    ELSE recvName(n)

\* mutant of class: v.classes is never consulted, every declaration gets
\* a Class of its own
classAlwaysNew(v, byF, fileName, n) ==
    LET name == className(byF, fileName, n) IN
    [classes |-> [c \in (DOMAIN v.classes) \cup {name} |->
                     IF c = name THEN Len(v.pkg.Classes) + 1 ELSE v.classes[c]],
     pkg |-> [v.pkg EXCEPT !.Classes =
                 Append(@, [Name |-> name, Filename |-> fileName,
                            Methods |-> <<>>, Lines |-> <<>>,
                            LineRate |-> <<0, 1>>])]]

\* fileVisitor.class: v is [classes, pkg], classes maps a class name to the
\* index of its Class in pkg.Classes; the result is v with the class present
class(v, byF, fileName, n) ==
    LET name == className(byF, fileName, n) IN
    IF name \in DOMAIN v.classes THEN v
    ELSE [classes |-> [c \in (DOMAIN v.classes) \cup {name} |->
                          IF c = name THEN Len(v.pkg.Classes) + 1 ELSE v.classes[c]],
          pkg |-> [v.pkg EXCEPT !.Classes =
                      Append(@, [Name |-> name, Filename |-> fileName,
                                 Methods |-> <<>>, Lines |-> <<>>,
                                 LineRate |-> <<0, 1>>])]]

\* fileVisitor.Visit on a *ast.FuncDecl
Visit(v, byF, fileName, profile, n) ==
    LET v1 == class(v, byF, fileName, n)
        idx == v1.classes[className(byF, fileName, n)]
        m0 == method(profile, n)
        m1 == [m0 EXCEPT !.LineRate = LinesHitRate(m0.Lines)]
        c0 == v1.pkg.Classes[idx]
        c1 == [c0 EXCEPT !.Methods = Append(@, m1), !.Lines = @ \o m1.Lines]
        c2 == [c1 EXCEPT !.LineRate = LinesHitRate(c1.Lines)]
    IN [v1 EXCEPT !.pkg.Classes[idx] = c2]

\* ast.Walk: the declarations of the file in source order
RECURSIVE Walk(_, _, _, _, _, _)
Walk(v, byF, fileName, profile, decls, k) ==
    IF k > Len(decls) THEN v
    ELSE Walk(Visit(v, byF, fileName, profile, decls[k]), byF, fileName, profile, decls, k + 1)

\* ------------------------------------------------------------------------
\* packages.Package and the source files
\* ------------------------------------------------------------------------
NilModule == [isNil |-> TRUE, Path |-> <<>>, Dir |-> <<>>]

\* a nil *packages.Package
NilPackage == [isNil |-> TRUE, ID |-> <<>>, Module |-> NilModule, GoFiles |-> <<>>]

\* findAbsFilePath
findAbsFilePath(pkg, profileName) ==
    LET hits == {i \in 1..Len(pkg.GoFiles) : Base(pkg.GoFiles[i]) = Base(profileName)}
    IN IF hits = {} THEN <<>>
       ELSE pkg.GoFiles[CHOOSE i \in hits : \A j \in hits : i <= j]

\* appendIfUnique
appendIfUnique(sources, dir) ==
    IF \E i \in 1..Len(sources) : sources[i] = dir THEN sources
    ELSE Append(sources, dir)

\* the index of the Package that ParseProfile folds into: the last one
\* whose Name is pkgPath, 0 if there is none
findPackage(packages, pkgPath) ==
    LET hits == {i \in 1..Len(packages) : packages[i].Name = pkgPath}
    IN IF hits = {} THEN 0 ELSE CHOOSE i \in hits : \A j \in hits : j <= i

\* mutant of packageRequired: the module is not looked at
packageRequiredNilOnly(pkgPkg) == pkgPkg.isNil

\* the guard of ParseProfile: pkgPkg == nil || pkgPkg.Module == nil
packageRequired(pkgPkg) == pkgPkg.isNil \/ pkgPkg.Module.isNil

\* Coverage.ParseProfile: [err, cov, visited]
ParseProfile(c, profile, pkgPkg, ign, dsk, byF) ==
    IF packageRequired(pkgPkg)
    THEN [err |-> Errorf("package required when using go modules", <<>>),
          cov |-> c, visited |-> <<>>]
    ELSE IF Len(pkgPkg.Module.Path) + 1 > Len(profile.FileName)
    THEN [err |-> Errorf("panic: slice bounds out of range", <<>>),
          cov |-> c, visited |-> <<>>]
    ELSE
    LET fileName == SubSeq(profile.FileName, Len(pkgPkg.Module.Path) + 2,
                           Len(profile.FileName))
        absFilePath == findAbsFilePath(pkgPkg, profile.FileName)
    IN IF absFilePath \notin DOMAIN dsk \/ dsk[absFilePath].status = "noparse"
       THEN [err |-> Errorf("file path error: %s , %s, %w", <<pkgPkg.ID, profile.FileName>>),
             cov |-> c, visited |-> <<>>]
       ELSE IF dsk[absFilePath].status = "noread"
       THEN [err |-> Errorf("read file %s: %w", <<absFilePath>>),
             cov |-> c, visited |-> <<>>]
       ELSE IF IgnoreMatch(ign, fileName, dsk[absFilePath].data)
       THEN [err |-> NoErr, cov |-> c, visited |-> <<>>]
       ELSE
       LET dir == TrimRight(TrimRight(Split(fileName)[1], "/"), "\\")
           pkgPath == ReplaceAll(Join(pkgPkg.Module.Path, dir), "\\", "/")
           found == findPackage(c.Packages, pkgPath)
           pkgs == IF found = 0
                   THEN Append(c.Packages, [Name |-> pkgPkg.ID, Classes |-> <<>>,
                                            LineRate |-> <<0, 1>>])
                   ELSE c.Packages
           idx == IF found = 0 THEN Len(pkgs) ELSE found
           decls == dsk[absFilePath].decls
           v == Walk([classes |-> <<>>, pkg |-> pkgs[idx]], byF, fileName, profile, decls, 1)
           pkg == [v.pkg EXCEPT !.LineRate = PackageHitRate(v.pkg)]
       IN [err |-> NoErr,
           cov |-> [c EXCEPT !.Packages = [pkgs EXCEPT ![idx] = pkg]],
           visited |-> [k \in 1..Len(decls) |->
                           [n |-> decls[k], blocks |-> profile.Blocks,
                            sel |-> methodBlocks(profile.Blocks, 1, decls[k])]]]

\* ------------------------------------------------------------------------
\* The texts of the model
\* ------------------------------------------------------------------------
FileA == <<"m", "/", "a", ".", "g", "o">>

FileB == <<"m", "/", "b", ".", "g", "o">>

FileG == <<"m", "/", "g", ".", "g", "o">>

\* the module of the profiled files: import path "m", directory "/r"
ModPath == <<"m">>

ModDir == <<"/", "r">>

AbsA == <<"/", "r", "/", "a", ".", "g", "o">>

AbsB == <<"/", "r", "/", "b", ".", "g", "o">>

\* a block line as `go test -coverprofile` prints it
BlockLine(file, sl, sc, el, ec, ns, c) ==
    file \o <<":">> \o Dec(sl) \o <<".">> \o Dec(sc) \o <<",">> \o Dec(el) \o <<".">>
         \o Dec(ec) \o <<" ">> \o Dec(ns) \o <<" ">> \o Dec(c)

ModeLine(m) == prefix \o m

\* "ok m" : a line of test output that strayed into the profile
JunkLine == <<"o", "k", " ", "m">>

\* "invalid data"
InvalidData == <<"i", "n", "v", "a", "l", "i", "d", " ", "d", "a", "t", "a">>

\* first lines: two modes, a blank mode, no mode, no blank after the colon,
\* no mode line at all, an empty line
FirstLines ==
    { ModeLine(ModeSet), ModeLine(ModeCount), ModeLine(<<" ">>), prefix,
      <<"m", "o", "d", "e", ":">> \o ModeSet, InvalidData, <<>> }

\* "m/a.go:5.1,9.2 3": a block line that lost its last field
CutLine == FileA \o <<":", "5", ".", "1", ",", "9", ".", "2", " ", "3">>

JunkLines == { JunkLine, CutLine }

\* the samples of the profiles: <<file, startLine, startCol, endLine,
\* endCol, numStmt, count>>
Samples ==
    { <<FileA, 5, 1, 9, 2, 3, 1>>,
      <<FileA, 5, 1, 9, 2, 3, 3>>,
      <<FileA, 5, 1, 9, 2, 2, 1>>,
      <<FileA, 5, 1, 7, 2, 1, 1>>,
      <<FileA, 3, 1, 4, 12, 1, 0>>,
      <<FileB, 5, 1, 9, 2, 3, 1>>,
      <<FileB, 8, 34, 9, 16, 1, 1>>,
      <<FileG, 5, 1, 9, 2, 3, 1>> }

SampleLine(t) == BlockLine(t[1], t[2], t[3], t[4], t[5], t[6], t[7])

DataLines ==
    { SampleLine(t) : t \in Samples \ {<<FileB, 8, 34, 9, 16, 1, 1>>} } \cup {JunkLine}

NoIgnore == [Files |-> {}, GeneratedFiles |-> FALSE]

Ignores == { NoIgnore, [Files |-> {FileG}, GeneratedFiles |-> TRUE] }

NoWorld == [loadErr |-> FALSE, noModule |-> {}]

NoCall == [profile |-> [FileName |-> <<>>, Mode |-> <<>>, Blocks |-> <<>>],
           pkg |-> NilPackage]

InitFoldVars ==
    /\ world = NoWorld
    /\ disk = <<>>
    /\ byFiles = FALSE
    /\ hitsRule = "sum"
    /\ pkgMap = <<>>
    /\ cov = ZeroCoverage
    /\ next = 0
    /\ lastCall = NoCall
    /\ visited = <<>>
    /\ outOK = 0
    /\ out = <<>>

\* ------------------------------------------------------------------------
\* ParseProfiles called on a reader
\* ------------------------------------------------------------------------
InitParse ==
    /\ input = <<>>
    /\ ignore \in Ignores
    /\ mode = <<>>
    /\ files = <<>>
    /\ profiles = <<>>
    /\ err = NoErr
    /\ pc = "scan"
    /\ InitFoldVars

ParseScan == ScanLine(FirstLines, DataLines)

NextParse == ParseScan \/ FinishParse

SpecParse == InitParse /\ [][NextParse]_vars

\* ------------------------------------------------------------------------
\* Convert
\* ------------------------------------------------------------------------
\* number of ParseProfile calls a client makes on one Coverage
MaxCalls == 2

\* number of blocks of a profile handed to ParseProfile by a client
MaxBlocks == 3

FuncDecl(name, pos, end, recv) == [Name |-> name, Pos |-> pos, End |-> end, Recv |-> recv]

SourceFile(status, data, decls) == [status |-> status, data |-> data, decls |-> decls]

\* a.go: one function declared on lines 5 to 8
DeclsA == << FuncDecl("Func1", <<5, 1>>, <<8, 2>>, <<>>) >>

\* b.go: the three methods of Type1 of the test data, two of them on a
\* pointer receiver
DeclsB == << FuncDecl("Func2a", <<8, 1>>, <<12, 2>>, <<"T", "y", "p", "e", "1">>),
             FuncDecl("Func2b", <<14, 1>>, <<15, 2>>, <<"*", "T", "y", "p", "e", "1">>),
             FuncDecl("Func2c", <<17, 1>>, <<18, 2>>, <<"*", "T", "y", "p", "e", "1">>) >>

FileBOnDisk == SourceFile("ok", "plain", DeclsB)

\* the source trees Convert runs on: a.go as written, absent, generated,
\* not parseable, or deleted between the parse and the read
Disks ==
    { (AbsA :> SourceFile("ok", "plain", DeclsA)) @@ (AbsB :> FileBOnDisk),
      (AbsB :> FileBOnDisk),
      (AbsA :> SourceFile("ok", "generated", DeclsA)) @@ (AbsB :> FileBOnDisk),
      (AbsA :> SourceFile("noparse", "plain", <<>>)) @@ (AbsB :> FileBOnDisk),
      (AbsA :> SourceFile("noread", "plain", DeclsA)) @@ (AbsB :> FileBOnDisk) }

\* what packages.Load may answer
Worlds == { NoWorld, [loadErr |-> TRUE, noModule |-> {}],
            [loadErr |-> FALSE, noModule |-> {ModPath}] }

\* the strings of a set in ascending order
RECURSIVE SortStrings(_)
SortStrings(ss) ==
    IF ss = {} THEN <<>>
    ELSE LET first == CHOOSE x \in ss : \A y \in ss : y = x \/ StringLess(x, y)
         IN <<first>> \o SortStrings(ss \ {first})

\* the package packages.Load reports for an import path of the module
LoadedPackage(w, dsk, id) ==
    LET dir == ModDir \o SubSeq(id, Len(ModPath) + 1, Len(id)) IN
    [isNil |-> FALSE, ID |-> id,
     Module |-> IF id \in w.noModule THEN NilModule
                ELSE [isNil |-> FALSE, Path |-> ModPath, Dir |-> ModDir],
     GoFiles |-> SortStrings({f \in DOMAIN dsk : TrimRight(Split(f)[1], "/") = dir})]

\* packages.Load: an error, or one package per distinct pattern
Load(w, dsk, pkgNames) ==
    IF w.loadErr THEN [err |-> Errorf("packages.Load", <<>>), pkgs |-> <<>>]
    ELSE LET ids == SortStrings({pkgNames[i] : i \in 1..Len(pkgNames)})
         IN [err |-> NoErr, pkgs |-> [k \in 1..Len(ids) |-> LoadedPackage(w, dsk, ids[k])]]

\* mutant of getPackages: packages.Load is called with no pattern, and
\* answers with the package of the working directory
getPackagesAlwaysLoad(ps, w, dsk) ==
    IF Len(ps) = 0 THEN Load(w, dsk, <<ModPath>>)
    ELSE Load(w, dsk, [i \in 1..Len(ps) |-> getPackageName(ps[i].FileName)])

\* getPackages: no profile, no call of packages.Load
getPackages(ps, w, dsk) ==
    IF Len(ps) = 0 THEN [err |-> NoErr, pkgs |-> <<>>]
    ELSE Load(w, dsk, [i \in 1..Len(ps) |-> getPackageName(ps[i].FileName)])

\* Convert: the loop over pkgs that builds sources
RECURSIVE sourcesOf(_, _, _)
sourcesOf(sources, pkgs, k) ==
    IF k > Len(pkgs) THEN sources
    ELSE IF pkgs[k].isNil \/ pkgs[k].Module.isNil THEN sourcesOf(sources, pkgs, k + 1)
    ELSE sourcesOf(appendIfUnique(sources, pkgs[k].Module.Dir), pkgs, k + 1)

\* Convert: the loop over pkgs that builds pkgMap
pkgMapOf(pkgs) ==
    LET kept == {k \in 1..Len(pkgs) : ~pkgs[k].isNil /\ ~pkgs[k].Module.isNil} IN
    [id \in {pkgs[k].ID : k \in kept} |->
        pkgs[CHOOSE k \in kept : pkgs[k].ID = id /\ \A j \in kept : pkgs[j].ID = id => j <= k]]

\* Convert after ParseProfiles: the error return, getPackages, sources,
\* pkgMap and the Coverage, up to the first statement of parseProfiles
GetPackages ==
    /\ pc = "parsed"
    /\ IF err # NoErr
       THEN /\ pc' = "done"
            /\ UNCHANGED <<err, foldVars>>
       ELSE \E w \in Worlds, dsk \in Disks, byF \in BOOLEAN, rule \in HitsRules :
            /\ world' = w
            /\ disk' = dsk
            /\ byFiles' = byF
            /\ hitsRule' = rule
            /\ LET r == getPackages(profiles, w, dsk) IN
               IF r.err # NoErr
               THEN /\ err' = r.err
                    /\ pc' = "done"
                    /\ UNCHANGED <<pkgMap, cov, next>>
               ELSE /\ pkgMap' = pkgMapOf(r.pkgs)
                    /\ cov' = [ZeroCoverage EXCEPT !.Sources = sourcesOf(<<>>, r.pkgs, 1)]
                    /\ next' = 0
                    /\ pc' = "fold"
                    /\ UNCHANGED err
            /\ UNCHANGED <<lastCall, visited, outOK, out>>
    /\ UNCHANGED parseVars

\* mutant of FoldProfile: the error of ParseProfile is kept but the loop
\* goes on
FoldProfileGoesOn ==
    /\ pc = "fold"
    /\ next < Len(profiles)
    /\ LET profile == profiles[next + 1]
           pkgName == getPackageName(profile.FileName)
           pkgPkg == IF pkgName \in DOMAIN pkgMap THEN pkgMap[pkgName] ELSE NilPackage
           r == ParseProfile(cov, profile, pkgPkg, ignore, disk, byFiles)
       IN /\ lastCall' = [profile |-> profile, pkg |-> pkgPkg]
          /\ cov' = r.cov
          /\ visited' = r.visited
          /\ err' = IF r.err # NoErr THEN r.err ELSE err
          /\ next' = next + 1
    /\ UNCHANGED <<parseVars, pc, world, disk, byFiles, hitsRule, pkgMap, outOK, out>>

\* one iteration of the loop of Coverage.parseProfiles
FoldProfile ==
    /\ pc = "fold"
    /\ next < Len(profiles)
    /\ LET profile == profiles[next + 1]
           pkgName == getPackageName(profile.FileName)
           pkgPkg == IF pkgName \in DOMAIN pkgMap THEN pkgMap[pkgName] ELSE NilPackage
           r == ParseProfile(cov, profile, pkgPkg, ignore, disk, byFiles)
       IN /\ lastCall' = [profile |-> profile, pkg |-> pkgPkg]
          /\ cov' = r.cov
          /\ visited' = r.visited
          /\ IF r.err # NoErr
             THEN err' = r.err /\ pc' = "done" /\ UNCHANGED next
             ELSE next' = next + 1 /\ UNCHANGED <<err, pc>>
    /\ UNCHANGED <<parseVars, world, disk, byFiles, hitsRule, pkgMap, outOK, out>>

\* the end of Coverage.parseProfiles: the totals
Totals ==
    /\ pc = "fold"
    /\ next = Len(profiles)
    /\ cov' = [cov EXCEPT !.LinesValid = NumLines(cov),
                          !.LinesCovered = NumLinesWithHits(cov),
                          !.LineRate = CoverageHitRate(cov)]
    /\ pc' = "emit"
    /\ UNCHANGED <<parseVars, err, world, disk, byFiles, hitsRule, pkgMap, next, lastCall,
                   visited, outOK, out>>

\* the four writes of Convert: xml.Header, DTDDecl, the encoded tree, a
\* newline
Report(c) == << [xml |-> "Header", coverage |-> ZeroCoverage],
                [xml |-> "DTDDecl", coverage |-> ZeroCoverage],
                [xml |-> "coverage", coverage |-> c],
                [xml |-> "newline", coverage |-> ZeroCoverage] >>

\* the end of Convert: the writer accepts the first `accepted` writes and
\* fails the others; only the encoder's error is returned
Emit ==
    /\ pc = "emit"
    /\ \E accepted \in 0..Len(Report(cov)) :
          /\ outOK' = accepted
          /\ out' = out \o SubSeq(Report(cov), 1, accepted)
          /\ IF accepted < 3
             THEN err' = Errorf("io: read/write on closed pipe", <<>>)
             ELSE UNCHANGED err
    /\ pc' = "done"
    /\ UNCHANGED <<parseVars, world, disk, byFiles, hitsRule, pkgMap, cov, next, lastCall, visited>>

ConvertFirstLines == { ModeLine(ModeSet), ModeLine(ModeCount), InvalidData }

ConvertDataLines ==
    { SampleLine(<<FileA, 5, 1, 9, 2, 3, 1>>),
      SampleLine(<<FileA, 5, 1, 9, 2, 2, 1>>),
      SampleLine(<<FileB, 8, 34, 9, 16, 1, 1>>) } \cup JunkLines

Init ==
    /\ input = <<>>
    /\ ignore \in { NoIgnore, [Files |-> {}, GeneratedFiles |-> TRUE] }
    /\ mode = <<>>
    /\ files = <<>>
    /\ profiles = <<>>
    /\ err = NoErr
    /\ pc = "scan"
    /\ InitFoldVars

ConvertScan == ScanLine(ConvertFirstLines, ConvertDataLines)

Next == ConvertScan \/ FinishParse \/ GetPackages \/ FoldProfile \/ Totals \/ Emit

Spec == Init /\ [][Next]_vars

\* ------------------------------------------------------------------------
\* Coverage.ParseProfile called by a client, on profiles of its own
\* ------------------------------------------------------------------------
Block(sl, sc, el, ec, ns, c) ==
    [StartLine |-> sl, StartCol |-> sc, EndLine |-> el, EndCol |-> ec,
     NumStmt |-> ns, Count |-> c]

\* a.go, with one function from 5.3 to 8.2 ...
DeclsOne == << FuncDecl("F", <<5, 3>>, <<8, 2>>, <<>>) >>

\* ... or with methods of T and U and free functions, interleaved
DeclsMany == << FuncDecl("A", <<5, 3>>, <<8, 2>>, <<"T">>),
                FuncDecl("f", <<9, 1>>, <<9, 9>>, <<>>),
                FuncDecl("B", <<10, 1>>, <<10, 9>>, <<"*", "T">>),
                FuncDecl("C", <<11, 1>>, <<11, 9>>, <<"U">>),
                FuncDecl("g", <<12, 1>>, <<12, 9>>, <<>>),
                FuncDecl("D", <<13, 1>>, <<13, 9>>, <<"*", " ", "T">>) >>

FoldDisks ==
    { (AbsA :> SourceFile("ok", "plain", DeclsOne)) @@ (AbsB :> FileBOnDisk),
      (AbsA :> SourceFile("ok", "plain", DeclsMany)) @@ (AbsB :> FileBOnDisk),
      (AbsA :> SourceFile("ok", "generated", DeclsMany)) @@ (AbsB :> FileBOnDisk),
      (AbsB :> FileBOnDisk) }

\* blocks around the declaration 5.3 - 8.2: ending at its start, just
\* after its start, inside, starting just before its end, at its end,
\* before it, after it, and around it
FoldBlocks ==
    << Block(2, 1, 10, 1, 1, 1),
       Block(3, 1, 5, 3, 1, 1),
       Block(3, 1, 5, 4, 1, 0),
       Block(4, 1, 4, 9, 1, 1),
       Block(5, 3, 6, 1, 2, 2),
       Block(8, 1, 9, 5, 1, 1),
       Block(8, 2, 9, 5, 1, 0),
       Block(9, 1, 9, 9, 1, 1) >>

RECURSIVE Pick(_, _, _)
Pick(seq, ix, k) ==
    IF k > Len(seq) THEN <<>>
    ELSE (IF k \in ix THEN <<seq[k]>> ELSE <<>>) \o Pick(seq, ix, k + 1)

\* the sub-sequences of at most MaxBlocks blocks: sorted by start, as
\* ParseProfiles leaves them
FoldBlockLists ==
    { sortBlocks(Pick(FoldBlocks, ix, 1)) :
         ix \in {x \in SUBSET (1..Len(FoldBlocks)) : Cardinality(x) <= MaxBlocks} }

\* ParseProfile and the fileVisitor do not read the Mode of the profile
FoldProfiles ==
    { [FileName |-> FileA, Mode |-> ModeSet, Blocks |-> b] : b \in FoldBlockLists }

ProfileB == [FileName |-> FileB, Mode |-> ModeSet, Blocks |-> << Block(8, 34, 9, 16, 1, 1) >>]

\* the packages a client passes: nil, one without module, the loaded one
ClientPackages(dsk) ==
    { NilPackage,
      LoadedPackage([loadErr |-> FALSE, noModule |-> {ModPath}], dsk, ModPath),
      LoadedPackage(NoWorld, dsk, ModPath) }

InitFold ==
    /\ input = <<>>
    /\ ignore = [Files |-> {}, GeneratedFiles |-> TRUE]
    /\ mode = <<>>
    /\ files = <<>>
    /\ \E p \in FoldProfiles : profiles = <<p, ProfileB>>
    /\ err = NoErr
    /\ pc = "client"
    /\ world = NoWorld
    /\ disk \in FoldDisks
    /\ byFiles \in BOOLEAN
    /\ hitsRule \in HitsRules
    /\ pkgMap = <<>>
    /\ cov = ZeroCoverage
    /\ next = 0
    /\ lastCall = NoCall
    /\ visited = <<>>
    /\ outOK = 0
    /\ out = <<>>

\* cov.ParseProfile(profile, pkgPkg, ignore), the profile one of those
\* of index in ix, pkgPkg one of pkgs
ClientCall(ix, pkgs) ==
    /\ pc = "client"
    /\ next < MaxCalls
    /\ \E i \in ix \cap (1..Len(profiles)), pkgPkg \in pkgs :
          LET r == ParseProfile(cov, profiles[i], pkgPkg, ignore, disk, byFiles) IN
          /\ lastCall' = [profile |-> profiles[i], pkg |-> pkgPkg]
          /\ cov' = r.cov
          /\ visited' = r.visited
          /\ err' = r.err
    /\ next' = next + 1
    /\ UNCHANGED <<parseVars, pc, world, disk, byFiles, hitsRule, pkgMap, outOK, out>>

\* the client folds any of its profiles, any number of times
CallParseProfile == ClientCall(1..Len(profiles), ClientPackages(disk))

NextFold == CallParseProfile

SpecFold == InitFold /\ [][NextFold]_vars

\* ------------------------------------------------------------------------
\* Coverage.ParseProfile called on the files of one package, one by one
\* ------------------------------------------------------------------------
\* b.go with a function of its own, around the block of ProfileB
DeclsFree == << FuncDecl("G", <<8, 1>>, <<9, 20>>, <<>>) >>

PackageDisks ==
    { (AbsA :> SourceFile("ok", "plain", DeclsOne))
         @@ (AbsB :> SourceFile("ok", "plain", DeclsFree)),
      (AbsA :> SourceFile("ok", "plain", DeclsMany)) @@ (AbsB :> FileBOnDisk) }

\* a block around the declaration 5.3 - 8.2, one at its start, one at
\* its end
PackageBlocks ==
    << Block(2, 1, 10, 1, 1, 1), Block(5, 3, 6, 1, 2, 2), Block(8, 1, 9, 5, 1, 1) >>

PackageProfiles ==
    { [FileName |-> FileA, Mode |-> m, Blocks |-> sortBlocks(Pick(PackageBlocks, ix, 1))] :
         m \in {ModeSet, ModeCount}, ix \in SUBSET (1..Len(PackageBlocks)) }

\* the ID packages.Load gives the package when it is loaded with its tests
TestVariantID == ModPath \o <<" ", "[">> \o ModPath \o <<".", "t", "e", "s", "t", "]">>

\* the package of the module as loaded with its tests: the files and the
\* module of the package, under the ID of the variant
TestVariant(dsk) == [LoadedPackage(NoWorld, dsk, ModPath) EXCEPT !.ID = TestVariantID]

InitPackage ==
    /\ input = <<>>
    /\ ignore = NoIgnore
    /\ mode = <<>>
    /\ files = <<>>
    /\ \E p \in PackageProfiles : profiles = <<p, ProfileB>>
    /\ err = NoErr
    /\ pc = "client"
    /\ world = NoWorld
    /\ disk \in PackageDisks
    /\ byFiles \in BOOLEAN
    /\ hitsRule \in HitsRules
    /\ pkgMap = <<>>
    /\ cov = ZeroCoverage
    /\ next = 0
    /\ lastCall = NoCall
    /\ visited = <<>>
    /\ outOK = 0
    /\ out = <<>>

\* the client folds its profiles in order, each once, as parseProfiles does
FoldIntoPackage == ClientCall({next + 1}, ClientPackages(disk) \cup {TestVariant(disk)})

NextPackage == FoldIntoPackage

SpecPackage == InitPackage /\ [][NextPackage]_vars

\* ========================================================================
\* Properties of ParseProfiles (SpecParse)
\* ========================================================================
IsSampleLine(l) == \E t \in Samples : SampleLine(t) = l

SampleOf(l) == CHOOSE t \in Samples : SampleLine(t) = l

\* the lines of the input that are samples of a file the path patterns of
\* ignore do not match
Kept == {i \in 2..Len(input) : IsSampleLine(input[i]) /\ SampleOf(input[i])[1] \notin ignore.Files}

SameSpan(t, u) ==
    t[1] = u[1] /\ t[2] = u[2] /\ t[3] = u[3] /\ t[4] = u[4] /\ t[5] = u[5]

IsBlank(str) == \A i \in 1..Len(str) : str[i] = " "

ModeToken(line) == SubSeq(line, Len(prefix) + 1, Len(line))

\* ParseProfiles has returned, and the reader gave the input without error
ParseReturned == pc = "parsed" /\ err.msg # "scan profiles: %w"

BadModeErr(line) == Errorf("bad mode line: %s", <<line>>)

\* C1 as stated: a first line that is no `mode: <mode>` line, or whose mode
\* is empty or blank, makes ParseProfiles fail with "bad mode line: <line>"
\* and return no profile.
C1_Original ==
    (ParseReturned /\ Len(input) >= 1
       /\ (~HasPrefix(input[1], prefix) \/ IsBlank(ModeToken(input[1]))))
    => (err = BadModeErr(input[1]) /\ profiles = <<>>)

\* C1 amended: ParseProfiles fails with "bad mode line: <line>", and returns
\* no profile, exactly when the first line does not start with "mode: " or
\* has nothing after it; a mode of blanks only is accepted like any other.
C1_Amended ==
    (ParseReturned /\ Len(input) >= 1)
    => IF Len(input[1]) <= Len(prefix) \/ SubSeq(input[1], 1, Len(prefix)) # prefix
       THEN err = BadModeErr(input[1]) /\ profiles = <<>> /\ Len(input) = 1
       ELSE err.msg # "bad mode line: %s" /\ mode = ModeToken(input[1])

C1_Witness ==
    /\ ParseReturned
    /\ Len(input) = 1
    /\ input[1] = prefix
    /\ err = BadModeErr(prefix)

\* C3 as stated: after a successful ParseProfiles the input lines of one
\* file with one span are one Block of that file's Profile, whose count is
\* the OR ("set") or the sum (other modes) of theirs.  Stated for the
\* modes set and count.
RECURSIVE SumCounts(_)
SumCounts(ix) ==
    IF ix = {} THEN 0
    ELSE LET i == CHOOSE x \in ix : TRUE
         IN SampleOf(input[i])[7] + SumCounts(ix \ {i})

RECURSIVE OrCounts(_)
OrCounts(ix) ==
    IF ix = {} THEN 0
    ELSE LET i == CHOOSE x \in ix : TRUE
         IN BitOr(SampleOf(input[i])[7], OrCounts(ix \ {i}))

BlockHasSpan(b, t) ==
    b.StartLine = t[2] /\ b.StartCol = t[3] /\ b.EndLine = t[4] /\ b.EndCol = t[5]

C3_Claim ==
    (ParseReturned /\ err = NoErr /\ mode \in {ModeSet, ModeCount})
    => \A i \in Kept :
          LET t == SampleOf(input[i])
              same == {j \in Kept : SameSpan(SampleOf(input[j]), t)}
          IN \E k \in 1..Len(profiles) :
                /\ profiles[k].FileName = t[1]
                /\ Cardinality({n \in 1..Len(profiles[k].Blocks) :
                                   BlockHasSpan(profiles[k].Blocks[n], t)}) = 1
                /\ \A n \in 1..Len(profiles[k].Blocks) :
                      BlockHasSpan(profiles[k].Blocks[n], t)
                      => profiles[k].Blocks[n].Count =
                            (IF mode = ModeSet THEN OrCounts(same) ELSE SumCounts(same))

\* C4 as stated: two lines of one file with one span and different statement
\* counts make ParseProfiles fail with "inconsistent NumStmt" and return no
\* profile, wherever they are and whatever other blocks the file has.
\* Stated for the modes set and count.
C4_Claim ==
    (/\ ParseReturned
     /\ mode \in {ModeSet, ModeCount}
     /\ Len(input) >= 1
     /\ err # BadModeErr(input[1])
     /\ \E i, j \in Kept : /\ SameSpan(SampleOf(input[i]), SampleOf(input[j]))
                           /\ SampleOf(input[i])[6] # SampleOf(input[j])[6])
    => (/\ err.msg = "inconsistent NumStmt: changed from %d to %d"
        /\ profiles = <<>>)

\* C5: the slice ParseProfiles returns has one Profile for each file of the
\* input that is not ignored, in strictly ascending order of file name, and
\* the Blocks of each Profile are in non-decreasing order of (start line,
\* start column).
StartNotAfter(a, b) ==
    a.StartLine < b.StartLine \/ (a.StartLine = b.StartLine /\ a.StartCol <= b.StartCol)

C5_Ordering ==
    (ParseReturned /\ err = NoErr)
    => /\ {profiles[k].FileName : k \in 1..Len(profiles)}
             = {SampleOf(input[i])[1] : i \in Kept}
       /\ Len(profiles) = Cardinality({SampleOf(input[i])[1] : i \in Kept})
       /\ \A k \in 1..(Len(profiles) - 1) :
             StringLess(profiles[k].FileName, profiles[k + 1].FileName)
       /\ \A k \in 1..Len(profiles) :
             \A n \in 1..(Len(profiles[k].Blocks) - 1) :
                StartNotAfter(profiles[k].Blocks[n], profiles[k].Blocks[n + 1])

\* two files, the later one first in the input, and blocks of a.go given
\* in descending order of start
C5_Witness ==
    /\ ParseReturned
    /\ err = NoErr
    /\ Len(input) = 4
    /\ input[2] = SampleLine(<<FileB, 5, 1, 9, 2, 3, 1>>)
    /\ input[3] = SampleLine(<<FileA, 5, 1, 9, 2, 3, 1>>)
    /\ input[4] = SampleLine(<<FileA, 3, 1, 4, 12, 1, 0>>)
    /\ Len(profiles) = 2
    /\ Len(profiles[1].Blocks) = 2

\* ========================================================================
\* Properties of Convert (Spec)
\* ========================================================================
\* a mode line, then nothing but lines that are no block lines, read
\* without error
OnlyJunk ==
    /\ Len(input) >= 1
    /\ err.msg # "scan profiles: %w"
    /\ input[1] \in {ModeLine(ModeSet), ModeLine(ModeCount)}
    /\ \A i \in 2..Len(input) : input[i] \in JunkLines

EmptyCoverage(c) ==
    /\ c.Packages = <<>>
    /\ c.Sources = <<>>
    /\ c.LinesValid = 0
    /\ c.LinesCovered = 0
    /\ c.LineRate[1] = 0

\* C2 as stated: on a mode line followed only by lines that are no block
\* lines ParseProfiles returns no profile and no error, and Convert succeeds
\* with a Coverage without Packages and Sources and with zero totals.
C2_Original ==
    (OnlyJunk /\ pc # "scan")
    => /\ profiles = <<>>
       /\ pc = "parsed" => err = NoErr
       /\ pc = "done" => (err = NoErr /\ EmptyCoverage(cov))

\* C2 amended: ... and Convert builds a Coverage without Packages and
\* Sources and with zero totals, and succeeds unless the writer fails: the
\* only error it can return is the encoder's write error.
C2_Amended ==
    (OnlyJunk /\ pc # "scan")
    => /\ profiles = <<>>
       /\ pc = "parsed" => err = NoErr
       /\ pc = "fold" => (err = NoErr /\ cov.Packages = <<>> /\ cov.Sources = <<>>)
       /\ pc = "emit" => (err = NoErr /\ EmptyCoverage(cov))
       /\ pc = "done" =>
             /\ EmptyCoverage(cov)
             /\ \/ err = NoErr /\ Len(out) >= 3 /\ out[3].coverage = cov
                \/ /\ err = Errorf("io: read/write on closed pipe", <<>>)
                   /\ outOK < 3
                   /\ Len(out) = outOK

\* two stray lines after the mode line; packages.Load would have failed
C2_Witness ==
    /\ OnlyJunk
    /\ Len(input) = 3
    /\ input[2] # input[3]
    /\ pc = "done"
    /\ world.loadErr
    /\ err = NoErr
    /\ Len(out) = 4

TotalsComputed(c) ==
    /\ c.LinesValid = NumLines(c)
    /\ c.LinesCovered = NumLinesWithHits(c)
    /\ c.LineRate = CoverageHitRate(c)

\* C9: Convert is fail-fast and writes no partial report: the output is
\* written only once every profile is folded without error and the totals
\* are computed; an error of the parsing, of the resolution or of a fold
\* ends Convert with that error, nothing written and no later profile folded.
C9_FailFast ==
    [][ /\ (out' # out) =>
              (/\ pc = "emit"
               /\ err = NoErr
               /\ next = Len(profiles)
               /\ TotalsComputed(cov)
               /\ cov' = cov)
        /\ (err # NoErr) => (err' = err /\ UNCHANGED <<cov, out, next, lastCall, profiles>>)
        /\ (err = NoErr /\ err' # NoErr /\ pc # "emit") =>
              (out' = <<>> /\ pc' \in {"parsed", "done"} /\ cov'.Packages = cov.Packages)
        /\ (pc # "emit") => out' = <<>>
      ]_vars

\* the first of two profiles fails to fold: the second is never folded
C9_Witness ==
    /\ pc = "done"
    /\ Len(profiles) = 2
    /\ next = 0
    /\ err.msg = "file path error: %s , %s, %w"
    /\ lastCall.profile = profiles[1]
    /\ out = <<>>

\* mode set, the one block m/a.go:5.1,9.2 3 1, the one declaration of a.go
\* on the lines 5 to 8, folded
C10_Case ==
    /\ input = << ModeLine(ModeSet), SampleLine(<<FileA, 5, 1, 9, 2, 3, 1>>) >>
    /\ pc \in {"emit", "done"}
    /\ cov.Packages # <<>>

Line(n, h) == [Number |-> n, Hits |-> h]

TheMethod == cov.Packages[1].Classes[1].Methods[1]

\* C10 as stated: the Method has the 4 Lines 5, 6, 7, 8, with hits 1, 0, 0, 0.
C10_Original ==
    C10_Case => TheMethod.Lines = << Line(5, 1), Line(6, 0), Line(7, 0), Line(8, 0) >>

\* C10 amended: the Method has the 5 Lines 5, 6, 7, 8, 9 in that order, one
\* for each line of the block, each with hits 1.
C10_Amended ==
    C10_Case =>
       /\ Len(cov.Packages) = 1
       /\ Len(cov.Packages[1].Classes) = 1
       /\ Len(cov.Packages[1].Classes[1].Methods) = 1
       /\ TheMethod.Name = "Func1"
       /\ TheMethod.Lines = << Line(5, 1), Line(6, 1), Line(7, 1), Line(8, 1), Line(9, 1) >>

C10_Witness ==
    /\ C10_Case
    /\ pc = "done"
    /\ err = NoErr
    /\ disk[AbsA].decls = DeclsA

\* ========================================================================
\* Properties of Coverage.ParseProfile (SpecFold)
\* ========================================================================
PosLess(a, b) == a[1] < b[1] \/ (a[1] = b[1] /\ a[2] < b[2])

\* the block ends after the start of n and starts before the end of n
Overlaps(b, n) ==
    /\ PosLess(n.Pos, <<b.EndLine, b.EndCol>>)
    /\ PosLess(<<b.StartLine, b.StartCol>>, n.End)

\* the name of the file in the Classes of the last call
LastFileName ==
    SubSeq(lastCall.profile.FileName, Len(lastCall.pkg.Module.Path) + 2,
           Len(lastCall.profile.FileName))

AllClasses == ConcatAll([i \in 1..Len(cov.Packages) |-> cov.Packages[i].Classes])

\* the Methods of the tree that come from the declaration `name` of `file`
MethodsOf(file, name) ==
    UNION { {c.Methods[j] : j \in {x \in 1..Len(c.Methods) : c.Methods[x].Name = name}} :
              c \in {AllClasses[i] : i \in {x \in 1..Len(AllClasses) :
                                               AllClasses[x].Filename = file}} }

\* C6: the blocks that give lines to the Method of a declaration are the
\* blocks that end after its start and start before its end, in the order
\* of the profile: the early stop of the scan drops none of them, and a
\* block that ends at the start or starts at the end is left out.
C6_Boundaries ==
    \A k \in 1..Len(visited) :
       LET n == visited[k].n
           over == SelectSeq(visited[k].blocks, LAMBDA b : Overlaps(b, n))
       IN /\ visited[k].sel = over
          /\ MethodsOf(LastFileName, n.Name) # {}
          /\ \A m \in MethodsOf(LastFileName, n.Name) :
                {m.Lines[j].Number : j \in 1..Len(m.Lines)}
                   = UNION {over[j].StartLine..over[j].EndLine : j \in 1..Len(over)}

\* a block that ends at 5.3, one inside, one that starts at 8.2
C6_Witness ==
    /\ Len(visited) = 1
    /\ visited[1].n = DeclsOne[1]
    /\ visited[1].blocks = << Block(3, 1, 5, 3, 1, 1), Block(5, 3, 6, 1, 2, 2),
                              Block(8, 2, 9, 5, 1, 0) >>
    /\ visited[1].sel = << Block(5, 3, 6, 1, 2, 2) >>

\* C7: ParseProfile called with no package, or with a package without
\* Module, returns "package required when using go modules", the file on
\* disk or not, and leaves the Coverage as it was.
C7_PackageRequired ==
    [][ (next' = next + 1 /\ (lastCall'.pkg.isNil \/ lastCall'.pkg.Module.isNil))
        => (/\ err' = Errorf("package required when using go modules", <<>>)
            /\ cov' = cov) ]_vars

\* a package without Module, the file on disk, a Coverage that holds a
\* Package already
C7_Witness ==
    /\ next = 2
    /\ ~lastCall.pkg.isNil
    /\ lastCall.pkg.Module.isNil
    /\ lastCall.profile.FileName = FileA
    /\ AbsA \in DOMAIN disk
    /\ cov.Packages # <<>>
    /\ err = Errorf("package required when using go modules", <<>>)

\* the name of the receiver type, "-" for a function
ReceiverTypeName(n) ==
    IF n.Recv = <<>> THEN <<"-">> ELSE SelectSeq(n.Recv, LAMBDA c : c \notin {"*", " "})

\* C8: grouped by receiver, the declarations of one file with one receiver
\* type, pointer or not, are the Methods of one Class named after it, the
\* functions those of one Class "-", one Method per declaration, in the
\* order of the source.
C8_Grouping ==
    [][ (next' = next + 1 /\ ~byFiles /\ err' = NoErr /\ visited' # <<>>)
        => LET decls == [k \in 1..Len(visited') |-> visited'[k].n]
               old == IF cov.Packages = <<>> THEN <<>> ELSE cov.Packages[1].Classes
               all == cov'.Packages[1].Classes
               new == SubSeq(all, Len(old) + 1, Len(all))
           IN /\ Len(cov'.Packages) = 1
              /\ SubSeq(all, 1, Len(old)) = old
              /\ \A a, b \in 1..Len(new) : new[a].Name = new[b].Name => a = b
              /\ {new[a].Name : a \in 1..Len(new)}
                    = {ReceiverTypeName(decls[k]) : k \in 1..Len(decls)}
              /\ \A a \in 1..Len(new) :
                    LET mine == SelectSeq(decls, LAMBDA d : ReceiverTypeName(d) = new[a].Name)
                    IN [j \in 1..Len(new[a].Methods) |-> new[a].Methods[j].Name]
                          = [j \in 1..Len(mine) |-> mine[j].Name]
      ]_vars

\* six declarations, three of T: three Classes, that of T with the
\* Methods A, B, D
C8_Witness ==
    /\ next = 1
    /\ ~byFiles
    /\ err = NoErr
    /\ Len(visited) = 6
    /\ Len(cov.Packages) = 1
    /\ Len(cov.Packages[1].Classes) = 3
    /\ cov.Packages[1].Classes[1].Name = <<"T">>
    /\ Len(cov.Packages[1].Classes[1].Methods) = 3
    /\ cov.Packages[1].Classes[1].Methods[3].Name = "D"

\* ========================================================================
\* Properties of the Lines of a Method (SpecPackage)
\* ========================================================================
\* the blocks of sel that touch the line num
Touching(sel, num) == {j \in 1..Len(sel) : sel[j].StartLine <= num /\ num <= sel[j].EndLine}

RECURSIVE CountSum(_, _)
CountSum(sel, js) ==
    IF js = {} THEN 0
    ELSE LET j == CHOOSE x \in js : TRUE IN sel[j].Count + CountSum(sel, js \ {j})

CountOr(sel, js) == IF \E j \in js : sel[j].Count > 0 THEN 1 ELSE 0

\* the Methods of the declarations of the last call, each with the blocks
\* selected for its declaration
LastMethods ==
    UNION { {[m |-> m, sel |-> visited[k].sel] : m \in MethodsOf(LastFileName, visited[k].n.Name)} :
              k \in 1..Len(visited) }

\* the lines of the Methods of the last call that several blocks touch
SharedLines ==
    UNION { {[line |-> x.m.Lines[j], sel |-> x.sel] :
                j \in {i \in 1..Len(x.m.Lines) :
                          Cardinality(Touching(x.sel, x.m.Lines[i].Number)) > 1}} :
              x \in LastMethods }

\* no line number twice in a Method, and the lines of a Method are those
\* from the first to the last line of each contributing block
LinesOfBlocks ==
    \A x \in LastMethods :
       /\ \A i, j \in 1..Len(x.m.Lines) : x.m.Lines[i].Number = x.m.Lines[j].Number => i = j
       /\ {x.m.Lines[j].Number : j \in 1..Len(x.m.Lines)}
             = UNION {x.sel[j].StartLine..x.sel[j].EndLine : j \in 1..Len(x.sel)}

ClassesAt(c, idx) == IF idx \in 1..Len(c.Packages) THEN c.Packages[idx].Classes ELSE <<>>

\* C11 as stated: whatever files were folded, no two Classes of one
\* Package have the same name, a declaration whose class name exists in
\* the Package, from this file or from an earlier one, going to that Class.
C11_Original ==
    \A p \in 1..Len(cov.Packages) :
       \A a, b \in 1..Len(cov.Packages[p].Classes) :
          cov.Packages[p].Classes[a].Name = cov.Packages[p].Classes[b].Name => a = b

\* C11 amended: a call that folds a file leaves the Classes its Package
\* had as they were and appends Classes of its own, named after this
\* file, with pairwise distinct names, one per resolved class name of
\* the file's declarations, each declaration being a Method of the Class
\* of its name among them.
C11_Amended ==
    [][ (next' = next + 1 /\ err' = NoErr /\ visited' # <<>>)
        => \E idx \in 1..Len(cov'.Packages) :
              LET old == ClassesAt(cov, idx)
                  all == cov'.Packages[idx].Classes
                  new == SubSeq(all, Len(old) + 1, Len(all))
                  decls == [k \in 1..Len(visited') |-> visited'[k].n]
                  file == SubSeq(lastCall'.profile.FileName,
                                 Len(lastCall'.pkg.Module.Path) + 2,
                                 Len(lastCall'.profile.FileName))
              IN /\ \A q \in 1..Len(cov.Packages) :
                       q # idx => cov'.Packages[q] = cov.Packages[q]
                 /\ SubSeq(all, 1, Len(old)) = old
                 /\ \A a, b \in 1..Len(new) : new[a].Name = new[b].Name => a = b
                 /\ \A a \in 1..Len(new) : new[a].Filename = file
                 /\ {new[a].Name : a \in 1..Len(new)}
                       = {className(byFiles, file, decls[k]) : k \in 1..Len(decls)}
                 /\ \A a \in 1..Len(new) :
                       LET mine == SelectSeq(decls,
                                     LAMBDA d : className(byFiles, file, d) = new[a].Name)
                       IN [j \in 1..Len(new[a].Methods) |-> new[a].Methods[j].Name]
                             = [j \in 1..Len(mine) |-> mine[j].Name]
      ]_vars

\* a.go then b.go, each with a function, folded into the Package m: two
\* Classes "-", the first of a.go with F, the second of b.go with G
C11_Witness ==
    /\ next = MaxCalls
    /\ ~byFiles
    /\ err = NoErr
    /\ lastCall.profile = ProfileB
    /\ disk[AbsB].decls = DeclsFree
    /\ Len(cov.Packages) = 1
    /\ [a \in 1..Len(cov.Packages[1].Classes) |->
          <<cov.Packages[1].Classes[a].Name, cov.Packages[1].Classes[a].Filename,
            [j \in 1..Len(cov.Packages[1].Classes[a].Methods) |->
                cov.Packages[1].Classes[a].Methods[j].Name]>>]
         = << << <<"-">>, <<"a", ".", "g", "o">>, <<"F">> >>,
              << <<"-">>, <<"b", ".", "g", "o">>, <<"G">> >> >>

\* C13 as stated: after any successful calls of ParseProfile, the files
\* of one package are folded into one Package, the one its first file
\* created, and no two Packages of the Coverage have the same Name.
C13_Claim ==
    \A a, b \in 1..Len(cov.Packages) :
       cov.Packages[a].Name = cov.Packages[b].Name => a = b

====
